---- MODULE Spec2Model ----
(***************************************************************************)
(* The TMDb catalog client of popcorn-boxd (utils/tmdbClient): the         *)
(* module-level cache, the retry loop of tmdbFetch with its per-attempt    *)
(* AbortController, and the public searchMovies / getMovieDetails calls.   *)
(*                                                                         *)
(* JavaScript strings are sequences of one-character strings, so that      *)
(* trim(), toLowerCase() and template concatenation are computed.          *)
(* A logical call is a record; every action is one run-to-completion step  *)
(* of the event loop (the code between two awaits).                        *)
(***************************************************************************)
EXTENDS Integers, Sequences, FiniteSets, TLC

VARIABLES
    calls,      \* per logical call: the locals of tmdbFetch and its signal
    cache,      \* the module-level Map (key -> {timestamp, data})
    now,        \* Date.now()
    apiKey,     \* process.env.EXPO_PUBLIC_TMDB_API_KEY is set
    started,    \* number of public calls made so far
    lastWriter, \* the request of the call that wrote the cache last
    \* MovieSearchScreen
    mounted,            \* the screen is mounted
    query,              \* useState(''): the text of the search field
    results,            \* useState([]): the list shown
    errorState,         \* useState(null), `error`: <<>> for null, else <<message>>
    isLoading,          \* useState(false)
    abortControllerRef, \* useRef(null): the call whose controller it holds
    handler,            \* the timeout of the debounce effect
    searches,           \* the calls a handleSearch is awaiting
    sinceChange,        \* history: ms since the query changed, up to the debounce
    \* AuthProvider, WatchedMoviesProvider, AsyncStorage
    user,               \* useState(null) of AuthProvider: the user's id
    watchedMovies,      \* useState([]) of WatchedMoviesProvider
    storage,            \* AsyncStorage: key -> stored value
    loading,            \* loadWatchedMovies of the provider's mount is pending
    savedBy,            \* history: movie id -> the user whose save made its entry
    signUps,            \* per signUp call: where it stands and its locals
    \* a poster being rendered
    posterPath, posterSize, posterUrl,
    \* the cache used directly
    cacheOp             \* the latest operation on the cache and what it returned

clientVars == <<calls, cache, now, apiKey, started, lastWriter>>
screenVars == <<mounted, query, results, errorState, isLoading, abortControllerRef,
                handler, searches, sinceChange>>
watchedVars == <<user, watchedMovies, storage, loading, savedBy, signUps>>
posterVars == <<posterPath, posterSize, posterUrl>>
appVars == <<screenVars, watchedVars, posterVars, cacheOp>>

vars == <<clientVars, appVars>>

---------------------------------------------------------------------------
\* Program constants

CACHE_TTL_IN_MS == 300000
MAX_RETRIES == 3
INITIAL_RETRY_DELAY_MS == 300

\* Bounds of the model

MaxCalls == 2

\* Math.random() * 100 lies in [0, 100); the two extremes that are integers
JitterValues == {0, 99}

\* Instants the clock is sampled at (Date.now() only moves forward)
Instants == {CACHE_TTL_IN_MS, CACHE_TTL_IN_MS + 1}

\* Response statuses the upstream may answer with
Statuses == {200, 304, 404, 500}

Calls == {"c1", "c2"}

---------------------------------------------------------------------------
\* Strings

Whitespace == {" "}
UpperCase == <<"A", "B", "C", "D", "E", "F", "G", "H", "I", "J", "K", "L", "M",
               "N", "O", "P", "Q", "R", "S", "T", "U", "V", "W", "X", "Y", "Z">>
LowerCase == <<"a", "b", "c", "d", "e", "f", "g", "h", "i", "j", "k", "l", "m",
               "n", "o", "p", "q", "r", "s", "t", "u", "v", "w", "x", "y", "z">>
Digits == <<"0", "1", "2", "3", "4", "5", "6", "7", "8", "9">>

toLowerCaseChar(ch) ==
    IF \E i \in 1..Len(UpperCase) : UpperCase[i] = ch
    THEN LowerCase[CHOOSE i \in 1..Len(UpperCase) : UpperCase[i] = ch]
    ELSE ch

toLowerCase(s) == [i \in 1..Len(s) |-> toLowerCaseChar(s[i])]

RECURSIVE trimStart(_)
trimStart(s) ==
    IF s # <<>> /\ Head(s) \in Whitespace THEN trimStart(Tail(s)) ELSE s

RECURSIVE trimEnd(_)
trimEnd(s) ==
    IF s # <<>> /\ s[Len(s)] \in Whitespace
    THEN trimEnd(SubSeq(s, 1, Len(s) - 1))
    ELSE s

trim(s) == trimEnd(trimStart(s))

\* String(n) for a non-negative integer
RECURSIVE numberToString(_)
numberToString(n) ==
    IF n < 10 THEN <<Digits[n + 1]>>
    ELSE numberToString(n \div 10) \o <<Digits[(n % 10) + 1]>>

SearchPrefix == <<"s", "e", "a", "r", "c", "h", ":">>
MoviePrefix == <<"m", "o", "v", "i", "e", ":">>

\* Mutant: the term is lower-cased but not trimmed
searchCacheKey_NoTrim(term) == SearchPrefix \o toLowerCase(term)

\* `search:${term.trim().toLowerCase()}`
searchCacheKey(term) == SearchPrefix \o toLowerCase(trim(term))

\* `movie:${id}`
movieCacheKey(id) == MoviePrefix \o numberToString(id)

---------------------------------------------------------------------------
\* Values

Undefined == [type |-> "undefined"]

\* Parsed JSON bodies: a search page and a movie object (no results field)
SearchPage == [type |-> "object", results |-> <<680>>]
MovieObject == [type |-> "object", id |-> 680]
Payloads == {SearchPage, MovieObject}

\* JavaScript truthiness of a cached value: objects are truthy
Truthy(v) == v.type = "object"

NoError == [name |-> "none", message |-> "", status |-> 0]
ConfigError == [name |-> "Error", message |-> "Chave da API do TMDb nao configurada.", status |-> 0]
AbortError == [name |-> "AbortError", message |-> "A requisicao foi cancelada.", status |-> 0]
FallbackError == [name |-> "Error", message |-> "Falha ao comunicar com o TMDb.", status |-> 0]
NetworkError == [name |-> "TypeError", message |-> "Network request failed", status |-> 0]
ParseError == [name |-> "SyntaxError", message |-> "JSON Parse error", status |-> 0]
HttpError(name, status) == [name |-> name, message |-> "TMDb respondeu com status", status |-> status]

IsError(e) == e # NoError

\* What a settled fetch delivers: a response with a status, or a rejection
NetworkFailure == [kind |-> "rejected", status |-> 0]
Response(status) == [kind |-> "response", status |-> status]
NoResponse == [kind |-> "none", status |-> 0]
Settlements == {Response(s) : s \in Statuses} \cup {NetworkFailure}

NoOutcome == [kind |-> "pending"]
Returned(v) == [kind |-> "return", value |-> v]
Thrown(e) == [kind |-> "throw", error |-> e]

---------------------------------------------------------------------------
\* Requests: what the public functions hand to tmdbFetch

Batman == <<"b", "a", "t", "m", "a", "n">>
BatmanPadded == <<" ", "B", "a", "t", "m", "a", "n", " ">>
Terms == {Batman, BatmanPadded}
MovieIds == {680}
CustomKey == <<"k">>
\* options.cacheKey is <<>> when omitted and <<key>> when given

NoRequest ==
    [fn |-> "none", term |-> <<>>, id |-> 0, path |-> <<>>, params |-> <<>>,
     callerKey |-> <<>>, cacheKey |-> <<>>, signal |-> FALSE]

\* options.cacheKey ?? fallback
Coalesce(option, fallback) == IF option = <<>> THEN fallback ELSE option[1]

searchMovies(term, options) ==
    [fn |-> "searchMovies", term |-> term, id |-> 0, path |-> <<"/search/movie">>,
     params |-> <<"&include_adult=false", "&page=1", "&query=">> \o term,
     callerKey |-> options.cacheKey,
     cacheKey |-> <<Coalesce(options.cacheKey, searchCacheKey(term))>>,
     signal |-> options.signal]

getMovieDetails(id, options) ==
    [fn |-> "getMovieDetails", term |-> <<>>, id |-> id,
     path |-> <<"/movie/">> \o numberToString(id), params |-> <<>>,
     callerKey |-> options.cacheKey,
     cacheKey |-> <<Coalesce(options.cacheKey, movieCacheKey(id))>>,
     signal |-> options.signal]

Options(keys, signals) == [cacheKey : keys, signal : signals]

\* The calls of the sequential specification: searches pass a signal, as the
\* search screen does; the trending list asks for details without one
Requests ==
    {searchMovies(t, o) : t \in Terms, o \in Options({<<>>}, {TRUE})}
    \cup {searchMovies(Batman, o) : o \in Options({<<CustomKey>>}, {TRUE})}
    \cup {getMovieDetails(i, o) : i \in MovieIds, o \in Options({<<>>}, {FALSE})}

\* data.results ?? []
searchResults(data) == IF "results" \in DOMAIN data THEN data.results ELSE <<>>

---------------------------------------------------------------------------
\* buildUrl, cache

\* Mutant: the missing key goes unnoticed
buildUrlThrows_Never == FALSE

\* buildUrl throws when the key is missing; otherwise it is the URL: the base,
\* the path, api_key, language and the call's parameters, piece by piece
buildUrlThrows == ~apiKey
buildUrl(path, params) ==
    <<"https://api.themoviedb.org/3">> \o path \o <<"?api_key=", "&language=pt-BR">> \o params

getCacheKey(url, cacheKey) == IF cacheKey = <<>> THEN url ELSE cacheKey[1]

isExpired(timestamp) == now - timestamp > CACHE_TTL_IN_MS

\* getCache: the value returned
getCache(url, cacheKey) ==
    LET key == getCacheKey(url, cacheKey) IN
    IF key \notin DOMAIN cache THEN Undefined
    ELSE IF isExpired(cache[key].timestamp) THEN Undefined
    ELSE cache[key].data

\* Mutant: an expired entry is reported absent and kept
getCacheEffect_Keep(url, cacheKey) == cache

\* getCache: the Map afterwards (an expired entry is deleted)
getCacheEffect(url, cacheKey) ==
    LET key == getCacheKey(url, cacheKey) IN
    IF key \in DOMAIN cache /\ isExpired(cache[key].timestamp)
    THEN [k \in DOMAIN cache \ {key} |-> cache[k]]
    ELSE cache

\* Mutant: the entry is stored under the URL, whatever cacheKey says
setCache_UrlKey(url, data, cacheKey) ==
    [k \in DOMAIN cache \cup {url} |->
        IF k = url THEN [timestamp |-> now, data |-> data] ELSE cache[k]]

\* Mutant: an entry that exists is kept
setCache_KeepExisting(url, data, cacheKey) ==
    LET key == getCacheKey(url, cacheKey) IN
    IF key \in DOMAIN cache THEN cache
    ELSE [k \in DOMAIN cache \cup {key} |->
            IF k = key THEN [timestamp |-> now, data |-> data] ELSE cache[k]]

\* setCache: the Map afterwards
setCache(url, data, cacheKey) ==
    LET key == getCacheKey(url, cacheKey) IN
    [k \in DOMAIN cache \cup {key} |->
        IF k = key THEN [timestamp |-> now, data |-> data] ELSE cache[k]]

getTmdbCacheSize == Cardinality(DOMAIN cache)

\* No operation yet
NoOp == [op |-> "none", key |-> <<>>, cached |-> Undefined, value |-> Undefined, size |-> 0]

\* The url and cacheKey arguments the cache is used with: the URL of a details
\* call with no key, with the default key and with a caller's key
CacheArguments ==
    {[url |-> buildUrl(r.path, r.params), cacheKey |-> k] :
        r \in {getMovieDetails(680, [cacheKey |-> <<>>, signal |-> FALSE])},
        k \in {<<>>, <<movieCacheKey(680)>>, <<CustomKey>>}}

\* Mutant: the delay does not grow with the attempt
getRetryDelay_Fixed(attempt, jitter) == INITIAL_RETRY_DELAY_MS + jitter

getRetryDelay(attempt, jitter) == INITIAL_RETRY_DELAY_MS * 2 ^ (attempt - 1) + jitter

---------------------------------------------------------------------------
\* One logical call: the locals of tmdbFetch, the caller's AbortSignal and
\* what the call has done so far

NewCall ==
    [pc |-> "idle",               \* idle, fetching, settled, sleeping, returned, raised
     req |-> NoRequest,
     signalAborted |-> FALSE,     \* options.signal.aborted
     listeners |-> 0,             \* onAbort listeners registered on options.signal
     controllerAborted |-> FALSE, \* controller.signal.aborted of the current attempt
     attempt |-> 0,
     lastError |-> NoError,
     settled |-> NoResponse,      \* what the latest fetch delivered
     cachedResponse |-> Undefined,
     outcome |-> NoOutcome,        \* what tmdbFetch returned or threw
     result |-> NoOutcome,         \* what searchMovies / getMovieDetails settled with
     fetchCalls |-> 0,            \* invocations of fetch()
     netAttempts |-> 0,           \* requests that went to the network
     cacheWrites |-> 0,           \* invocations of setCache
     sleeps |-> 0,                \* completed or pending calls of delay()
     delayMs |-> 0,               \* the argument of the latest delay()
     abortPoint |-> <<"never", 0>>] \* where the call was when its signal fired

InFlight(k) == k.pc \in {"fetching", "settled", "sleeping"}

\* Mutant: searchMovies answers a failure with the empty list
searchMoviesSettles_Swallow(o) ==
    IF o.kind = "throw" THEN Returned(<<>>) ELSE Returned(searchResults(o.value))

\* searchMovies after `await tmdbFetch(...)`: a rejection passes through (there
\* is no try around the await), a payload gives data.results ?? []
searchMoviesSettles(o) ==
    IF o.kind = "throw" THEN o ELSE Returned(searchResults(o.value))

\* getMovieDetails after `await tmdbFetch(...)`: return data
getMovieDetailsSettles(o) == o

\* The public function settles in the step in which its tmdbFetch does
Settle(k) ==
    [k EXCEPT !.result = IF k.req.fn = "searchMovies"
                         THEN searchMoviesSettles(k.outcome)
                         ELSE getMovieDetailsSettles(k.outcome)]

Throw(k, e) == Settle([k EXCEPT !.pc = "raised", !.outcome = Thrown(e)])
Return(k, v) == Settle([k EXCEPT !.pc = "returned", !.outcome = Returned(v)])

\* Mutant: a signal that is already aborted is not noticed (the listener is
\* registered on it and never runs)
attachAbortSignal_NoAbortedCheck(k) ==
    IF ~k.req.signal THEN [k EXCEPT !.controllerAborted = FALSE]
    ELSE [k EXCEPT !.controllerAborted = FALSE, !.listeners = @ + 1]

\* attachAbortSignal on a fresh controller
attachAbortSignal(k) ==
    IF ~k.req.signal THEN [k EXCEPT !.controllerAborted = FALSE]
    ELSE IF k.signalAborted THEN [k EXCEPT !.controllerAborted = TRUE]
    ELSE [k EXCEPT !.controllerAborted = FALSE, !.listeners = @ + 1]

\* catch block, when controller.signal.aborted
CatchAborted(k) == Throw(k, AbortError)

\* One iteration of the loop up to the await of fetch: a new controller,
\* attachAbortSignal, fetch(). A fetch handed an aborted signal rejects
\* without a request, and the catch block turns that into the AbortError.
BeginAttempt(k, a) ==
    LET k1 == attachAbortSignal([k EXCEPT !.attempt = a])
        k2 == [k1 EXCEPT !.fetchCalls = @ + 1]
    IN  IF k2.controllerAborted
        THEN CatchAborted(k2)
        ELSE [k2 EXCEPT !.pc = "fetching", !.netAttempts = @ + 1]

\* throw lastError instanceof Error ? lastError : new Error(...)
ExitLoop(k) == Throw(k, IF IsError(k.lastError) THEN k.lastError ELSE FallbackError)

\* Mutant: the loop stops one attempt early
LoopCondition_Short(a) == a < MAX_RETRIES

\* attempt <= MAX_RETRIES
LoopCondition(a) == a <= MAX_RETRIES

\* attempt += 1 and the loop test
NextIteration(k) ==
    IF LoopCondition(k.attempt + 1) THEN BeginAttempt(k, k.attempt + 1) ELSE ExitLoop(k)

\* Mutant: the range test names the server errors
IsClientStatus_ServerRange(status) == status >= 500 /\ status < 600

\* Mutant: every status below 500 counts as a client error
IsClientStatus_Below500(status) == status < 500

\* response.status >= 400 && response.status < 500
IsClientStatus(status) == status >= 400 /\ status < 500

\* response.ok
IsOk(status) == status >= 200 /\ status <= 299

\* the error thrown inside try for a settled fetch that is not an ok response
ErrorOf(s) ==
    IF s.kind = "rejected" THEN NetworkError
    ELSE HttpError(IF IsClientStatus(s.status) THEN "ClientError" ELSE "Error", s.status)

\* Mutant: only the first error is kept
RecordError_KeepFirst(old, error) == IF old = NoError THEN error ELSE old

\* lastError = error
RecordError(old, error) == error

\* Mutant: a sleep follows the last attempt too
SleepsAfter_Always(a) == TRUE

\* Mutant: the next attempt follows at once
SleepsAfter_Never(a) == FALSE

\* attempt < MAX_RETRIES: sleep before the next attempt
SleepsAfter(a) == a < MAX_RETRIES

\* Mutant: the client error is recognised before the abort
Catch_ClientFirst(k, error, jitter) ==
    IF error.name = "ClientError"
    THEN Throw([k EXCEPT !.lastError = RecordError(@, error)], error)
    ELSE IF k.controllerAborted THEN CatchAborted(k)
    ELSE LET k1 == [k EXCEPT !.lastError = RecordError(@, error)] IN
         IF SleepsAfter(k.attempt)
         THEN [k1 EXCEPT !.pc = "sleeping", !.sleeps = @ + 1,
                         !.delayMs = getRetryDelay(k.attempt, jitter)]
         ELSE NextIteration(k1)

\* catch (error) { ... }
Catch(k, error, jitter) ==
    IF k.controllerAborted THEN CatchAborted(k)
    ELSE IF error.name = "ClientError"
    THEN Throw([k EXCEPT !.lastError = RecordError(@, error)], error)
    ELSE LET k1 == [k EXCEPT !.lastError = RecordError(@, error)] IN
         IF SleepsAfter(k.attempt)
         THEN [k1 EXCEPT !.pc = "sleeping", !.sleeps = @ + 1,
                         !.delayMs = getRetryDelay(k.attempt, jitter)]
         ELSE NextIteration(k1)

\* The DOMException a fetch or a body read rejects with when aborted
AbortRejection == [name |-> "AbortError", message |-> "Aborted", status |-> 0]

\* Mutant: the caller's signal is tested before the cache is read
tmdbFetch_AbortFirst(k) ==
    IF buildUrlThrows THEN Throw(k, ConfigError)
    ELSE IF k.req.signal /\ k.signalAborted THEN Throw(k, AbortError)
    ELSE LET cachedResponse == getCache(buildUrl(k.req.path, k.req.params), k.req.cacheKey)
             k1 == [k EXCEPT !.cachedResponse = cachedResponse]
         IN  IF Truthy(cachedResponse) THEN Return(k1, cachedResponse)
             ELSE NextIteration(k1)

\* tmdbFetch from its entry to its first await (or to its return or throw):
\* the call record afterwards
tmdbFetch(k) ==
    IF buildUrlThrows THEN Throw(k, ConfigError)
    ELSE LET url == buildUrl(k.req.path, k.req.params)
             cachedResponse == getCache(url, k.req.cacheKey)
             k1 == [k EXCEPT !.cachedResponse = cachedResponse]
         IN  IF Truthy(cachedResponse) THEN Return(k1, cachedResponse)
             ELSE NextIteration(k1)

\* Mutant: the read at the entry of a call empties the cache
tmdbFetchCache_EvictsAll(k) == IF buildUrlThrows THEN cache ELSE <<>>

\* ... and the cache afterwards
tmdbFetchCache(k) ==
    IF buildUrlThrows THEN cache
    ELSE getCacheEffect(buildUrl(k.req.path, k.req.params), k.req.cacheKey)

---------------------------------------------------------------------------
\* MovieSearchScreen: the debounced search field

DEBOUNCE_IN_MS == 500

\* Lapses of time between two events of the screen
Durations == {250, 499}

Empty == <<>>
Blank == <<" ">>
\* What the user may have typed
Queries == {Empty, Blank, Batman, BatmanPadded}

NoController == "null"

NoMessage == <<>>
missingKeyMessage == "Chave da API do TMDb nao configurada. Adicione EXPO_PUBLIC_TMDB_API_KEY no arquivo .env."

Min(a, b) == IF a < b THEN a ELSE b
Max(a, b) == IF a > b THEN a ELSE b

\* The timeout of the debounce effect: pending or not, the query it closed
\* over, the time left before it is due
NoTimeout == [pending |-> FALSE, term |-> <<>>, remaining |-> 0]
setTimeout(term, ms) == [pending |-> TRUE, term |-> term, remaining |-> ms]
clearTimeout(h) == NoTimeout

\* Mutant: a timeout that is pending is kept, with the new text
debounceEffect_NoRestart(old, q) ==
    IF old.pending THEN [old EXCEPT !.term = q] ELSE setTimeout(q, DEBOUNCE_IN_MS)

\* The debounce effect re-running for a new query: the cleanup of the run
\* before it clears its timeout, then a new timeout is set
debounceEffect(old, q) ==
    LET cleared == clearTimeout(old) IN setTimeout(q, DEBOUNCE_IN_MS)

\* AbortController.abort() on the controller whose signal call k was given:
\* the signal fires once, every onAbort listener runs and is removed
abortSignal(k) ==
    IF k.signalAborted THEN k
    ELSE [k EXCEPT !.signalAborted = TRUE,
                   !.controllerAborted = @ \/ k.listeners > 0,
                   !.listeners = 0,
                   !.abortPoint = <<k.pc, k.attempt>>]

\* Mutant: the controller of the search before is left alone
abortCurrent_Skip(cs, ref) == cs

\* abortControllerRef.current?.abort()
abortCurrent(cs, ref) ==
    IF ref = NoController THEN cs ELSE [cs EXCEPT ![ref] = abortSignal(@)]

\* Mutant: the text is tested as typed
isBlank_NoTrim(term) == term = <<>>

\* !term.trim()
isBlank(term) == trim(term) = <<>>

\* Mutant: the test of the signal is missing
controllerSignalAborted_Never(k) == FALSE

\* controller.signal.aborted, read by handleSearch after its await
controllerSignalAborted(k) == k.signalAborted

Ended(k) == k.pc \in {"returned", "raised"}

\* handleSearch after `await searchMovies(...)` has settled as call k did:
\* the results, the error and the loading flag it leaves
resumeResults(k, old) ==
    IF k.pc = "returned"
    THEN IF controllerSignalAborted(k) THEN old ELSE searchResults(k.outcome.value)
    ELSE IF k.outcome.error.name = "AbortError" THEN old ELSE <<>>

resumeError(k, old) ==
    IF k.pc = "returned" THEN old
    ELSE IF k.outcome.error.name = "AbortError" THEN old
    ELSE <<k.outcome.error.message>>

\* Mutant: the finally block clears the flag whatever the signal
resumeLoading_Unconditional(k, old) == FALSE

resumeLoading(k, old) == IF controllerSignalAborted(k) THEN old ELSE FALSE

\* What is left of a call once the handleSearch awaiting it has taken its
\* outcome: the outcome and the caller's signal. The locals of tmdbFetch are
\* gone with its frame.
Release(k) ==
    [NewCall EXCEPT !.pc = k.pc, !.req = k.req, !.outcome = k.outcome,
                    !.result = k.result,
                    !.signalAborted = k.signalAborted, !.listeners = k.listeners,
                    !.abortPoint = <<k.abortPoint[1], 0>>]

\* The record of call c after a step that leaves it as k
Handover(c, k) == IF c \in searches /\ Ended(k) THEN Release(k) ELSE k

\* The continuation of the handleSearch that awaits call c, in the step in
\* which the call settles (the promise chain runs before any other event).
\* State setters of an unmounted screen do nothing.
Resume(c) ==
    IF c \in searches /\ Ended(calls'[c])
    THEN /\ searches' = searches \ {c}
         /\ results' = IF mounted THEN resumeResults(calls'[c], results) ELSE results
         /\ errorState' = IF mounted THEN resumeError(calls'[c], errorState) ELSE errorState
         /\ isLoading' = IF mounted THEN resumeLoading(calls'[c], isLoading) ELSE isLoading
         /\ UNCHANGED <<mounted, query, abortControllerRef, handler, sinceChange>>
    ELSE UNCHANGED screenVars

---------------------------------------------------------------------------
\* AuthProvider, WatchedMoviesProvider and AsyncStorage

STORAGE_KEY == "@popcorn-boxd/watched-movies"
CURRENT_USER_STORAGE_KEY == "@storage/currentUser"

NoUser == "none"
Users == {"A", "B"}
WatchedIds == {680, 550}
Ratings == {3, 5}
\* WatchedMovieInput: the id and the rating (the other fields are copied as
\* they are)
WatchedInputs == [id : WatchedIds, userRating : Ratings]

\* Mutant: no entry is ever found
findIndex_Never(previous, id) == 0

\* previous.findIndex((item) => item.id === movie.id), 0 when there is none
findIndex(previous, id) ==
    IF \E i \in 1..Len(previous) : previous[i].id = id
    THEN CHOOSE i \in 1..Len(previous) :
            previous[i].id = id /\ \A j \in 1..(i - 1) : previous[j].id # id
    ELSE 0

\* nextList of saveWatchedMovie
nextList(previous, movie) ==
    LET existingIndex == findIndex(previous, movie.id) IN
    IF existingIndex >= 1
    THEN [i \in 1..Len(previous) |->
            IF i = existingIndex
            THEN [previous[i] EXCEPT !.userRating = movie.userRating]
            ELSE previous[i]]
    ELSE Append(previous, movie)

setItem(store, key, value) ==
    [k \in DOMAIN store \cup {key} |-> IF k = key THEN value ELSE store[k]]

removeItem(store, key) == [k \in DOMAIN store \ {key} |-> store[k]]

\* getCurrentUser(): the stored session, or null
getCurrentUser(store) ==
    IF CURRENT_USER_STORAGE_KEY \in DOMAIN store THEN store[CURRENT_USER_STORAGE_KEY] ELSE NoUser

---------------------------------------------------------------------------
\* signUp and the stored users

USERS_STORAGE_KEY == "@storage/users"

\* The users the store may hold before sign-ups are no longer started
MaxUsers == 2

\* signUp calls that may be pending together
SignUpCalls == {"s1", "s2"}

\* E-mails typed into the form: one address, the same address with padding
\* and capitals, another address, and a text that is no address
EmailInputs ==
    {<<"a", "@", "b", ".", "c">>, <<" ", "A", "@", "B", ".", "c">>,
     <<"x", "@", "y", ".", "z">>, <<"a", "b">>}

\* email.trim().toLowerCase()
normalizeEmail(email) == toLowerCase(trim(email))

\* /\S+@\S+\.\S+/.test(s)
emailPattern(s) ==
    \E a, d \in 1..Len(s) :
        /\ s[a] = "@" /\ s[d] = "."
        /\ a >= 2 /\ s[a - 1] \notin Whitespace
        /\ d >= a + 2 /\ \A m \in (a + 1)..(d - 1) : s[m] \notin Whitespace
        /\ d < Len(s) /\ s[d + 1] \notin Whitespace

\* getStoredUsers(): the parsed list, [] when nothing is stored
getStoredUsers(store) ==
    IF USERS_STORAGE_KEY \in DOMAIN store THEN store[USERS_STORAGE_KEY] ELSE <<>>

\* No signUp is running
NoSignUp == [pc |-> "idle", email |-> <<>>, users |-> <<>>]

\* normalizeStoredUser({...user, id, createdAt}) of the sign-up p
newUser(p) == [email |-> normalizeEmail(signUps[p].email), by |-> p]

---------------------------------------------------------------------------
\* getPosterUrl

TMDB_IMAGE_BASE_URL == "https://image.tmdb.org/t/p"

MaxPathLen == 3
PathChars == {"/", "a", "."}

RECURSIVE StringsUpTo(_)
StringsUpTo(n) ==
    IF n = 0 THEN {<<>>}
    ELSE LET shorter == StringsUpTo(n - 1) IN
         shorter \cup {Append(t, ch) : t \in shorter, ch \in PathChars}

\* The arguments of getPosterUrl: <<>> when the argument is missing, <<v>>
\* when it is given; the path may be any string, the empty one too
PathInputs == {<<>>} \cup {<<t>> : t \in StringsUpTo(MaxPathLen)}
SizeInputs == {<<>>, <<"w185">>, <<"w342">>, <<"original">>}

NotRendered == [type |-> "pending"]
StringValue(chars) == [type |-> "string", value |-> chars]

\* Mutant: the separator before the size is missing
getPosterUrl_NoSlash(path, size) ==
    IF path = <<>> \/ path[1] = <<>> THEN Undefined
    ELSE StringValue(<<TMDB_IMAGE_BASE_URL>>
                     \o <<IF size = <<>> THEN "w185" ELSE size[1]>> \o path[1])

\* getPosterUrl(path, size = 'w185'): undefined for a falsy path, else
\* `${TMDB_IMAGE_BASE_URL}/${size}${path}`
getPosterUrl(path, size) ==
    LET sizeOrDefault == IF size = <<>> THEN "w185" ELSE size[1] IN
    IF path = <<>> \/ path[1] = <<>> THEN Undefined
    ELSE StringValue(<<TMDB_IMAGE_BASE_URL>> \o <<"/">> \o <<sizeOrDefault>> \o path[1])

---------------------------------------------------------------------------
\* Actions

\* The screen as it is after its first render (mounted), or absent
InitScreen(m) ==
    /\ mounted = m
    /\ query = Empty
    /\ results = <<>>
    /\ errorState = NoMessage
    /\ isLoading = FALSE
    /\ abortControllerRef = NoController
    /\ handler = IF m THEN setTimeout(Empty, DEBOUNCE_IN_MS) ELSE NoTimeout
    /\ searches = {}
    /\ sinceChange = 0

\* The providers as they are after their first render (the load of the
\* stored list pending), or absent
InitWatched(m) ==
    /\ user = NoUser
    /\ watchedMovies = <<>>
    /\ storage = <<>>
    /\ loading = m
    /\ savedBy = [i \in WatchedIds |-> NoUser]
    /\ signUps = [p \in SignUpCalls |-> NoSignUp]

\* No poster is being rendered
InitPoster ==
    /\ posterPath = <<>>
    /\ posterSize = <<>>
    /\ posterUrl = NotRendered

Init ==
    /\ calls = [c \in Calls |-> NewCall]
    /\ cache = <<>>
    /\ now = 0
    /\ apiKey \in BOOLEAN
    /\ started = 0
    /\ lastWriter = NoRequest
    /\ InitScreen(FALSE)
    /\ InitWatched(FALSE)
    /\ InitPoster
    /\ cacheOp = NoOp

\* The module with an API key configured and no call made, no screen or
\* provider mounted
InitConfigured ==
    /\ calls = [c \in Calls |-> NewCall]
    /\ cache = <<>>
    /\ now = 0
    /\ apiKey = TRUE
    /\ started = 0
    /\ lastWriter = NoRequest
    /\ InitScreen(FALSE)
    /\ InitWatched(FALSE)
    /\ InitPoster
    /\ cacheOp = NoOp

\* A caller invokes searchMovies or getMovieDetails; its signal, when it
\* passes one, may already be aborted
StartCall(c, r, preAborted) ==
    /\ ~InFlight(calls[c])
    /\ started < MaxCalls
    /\ preAborted => r.signal
    /\ LET k == [NewCall EXCEPT !.req = r, !.signalAborted = preAborted,
                                !.abortPoint = IF preAborted THEN <<"start", 0>> ELSE @]
       IN  /\ calls' = [calls EXCEPT ![c] = tmdbFetch(k)]
           /\ cache' = tmdbFetchCache(k)
    /\ started' = started + 1
    /\ UNCHANGED <<now, apiKey, lastWriter>>
    /\ UNCHANGED appVars

\* The caller of the sequential specification: one logical call at a time,
\* each started after the one before it has returned or raised
Call(r, preAborted) == StartCall("c1", r, preAborted)

\* The caller aborts its controller while the call is pending: every onAbort
\* listener runs, aborts its attempt's controller and is removed. (An abort
\* after the call has ended reaches no code of tmdbFetch.)
Abort(c) ==
    /\ InFlight(calls[c])
    /\ calls[c].req.signal
    /\ ~calls[c].signalAborted
    /\ calls' = [calls EXCEPT ![c] = abortSignal(@)]
    /\ UNCHANGED <<cache, now, apiKey, started, lastWriter>>
    /\ UNCHANGED appVars

\* The request completes: the promise of fetch settles (with a response or
\* with a network failure) and its continuation is queued. What it settled
\* with is read by the continuation.
FetchSettles(c) ==
    /\ calls[c].pc = "fetching"
    /\ ~calls[c].controllerAborted
    /\ calls' = [calls EXCEPT ![c] = [@ EXCEPT !.pc = "settled"]]
    /\ UNCHANGED <<cache, now, apiKey, started, lastWriter>>
    /\ Resume(c)
    /\ UNCHANGED <<watchedVars, posterVars, cacheOp>>

\* The pending fetch was aborted: it rejects and the catch block runs
FetchAborted(c) ==
    /\ calls[c].pc = "fetching"
    /\ calls[c].controllerAborted
    /\ calls' = [calls EXCEPT ![c] = Handover(c, Catch(@, AbortRejection, 0))]
    /\ UNCHANGED <<cache, now, apiKey, started, lastWriter>>
    /\ Resume(c)
    /\ UNCHANGED <<watchedVars, posterVars, cacheOp>>

\* The fetch did not deliver an ok response (a network failure, or a status
\* outside 200..299): the throw inside try, then the catch block
HandleFailure(c, s, jitter) ==
    /\ calls[c].pc = "settled"
    /\ s.kind = "response" => ~IsOk(s.status)
    /\ calls' = [calls EXCEPT ![c] = Handover(c, Catch([@ EXCEPT !.settled = s], ErrorOf(s), jitter))]
    /\ UNCHANGED <<cache, now, apiKey, started, lastWriter>>
    /\ Resume(c)
    /\ UNCHANGED <<watchedVars, posterVars, cacheOp>>

\* The fetch delivered an ok response and response.json() resolves:
\* setCache, return data
ParseDone(c, s, data) ==
    /\ calls[c].pc = "settled"
    /\ s.kind = "response" /\ IsOk(s.status)
    /\ cache' = setCache(buildUrl(calls[c].req.path, calls[c].req.params), data,
                         calls[c].req.cacheKey)
    /\ calls' = [calls EXCEPT ![c] = Handover(c,
                    Return([@ EXCEPT !.settled = s, !.cacheWrites = @ + 1], data))]
    /\ lastWriter' = calls[c].req
    /\ UNCHANGED <<now, apiKey, started>>
    /\ Resume(c)
    /\ UNCHANGED <<watchedVars, posterVars, cacheOp>>

\* The fetch delivered an ok response and response.json() rejects (a body
\* that is not JSON, or a body read that was aborted)
ParseFails(c, s, jitter) ==
    /\ calls[c].pc = "settled"
    /\ s.kind = "response" /\ IsOk(s.status)
    /\ calls' = [calls EXCEPT ![c] = Handover(c,
                    Catch([@ EXCEPT !.settled = s],
                          IF @.controllerAborted THEN AbortRejection ELSE ParseError, jitter))]
    /\ UNCHANGED <<cache, now, apiKey, started, lastWriter>>
    /\ Resume(c)
    /\ UNCHANGED <<watchedVars, posterVars, cacheOp>>

\* The timer of delay() fires
TimerFires(c) ==
    /\ calls[c].pc = "sleeping"
    /\ calls' = [calls EXCEPT ![c] = Handover(c, NextIteration(@))]
    /\ UNCHANGED <<cache, now, apiKey, started, lastWriter>>
    /\ Resume(c)
    /\ UNCHANGED <<watchedVars, posterVars, cacheOp>>

\* Time passes
Tick(t) ==
    /\ t > now
    /\ now' = t
    /\ UNCHANGED <<calls, cache, apiKey, started, lastWriter>>
    /\ UNCHANGED appVars

\* The environment variable is set or unset. It is read at the entry of a
\* call only, so the change is taken between calls.
SetApiKey(v) ==
    /\ \A c \in Calls : ~InFlight(calls[c])
    /\ v # apiKey
    /\ apiKey' = v
    /\ UNCHANGED <<calls, cache, now, started, lastWriter>>
    /\ UNCHANGED appVars

\* clearTmdbCache(), the test and debug tooling's reset between calls
clearTmdbCache ==
    /\ \A c \in Calls : ~InFlight(calls[c])
    /\ cache # <<>>
    /\ cache' = <<>>
    /\ UNCHANGED <<calls, now, apiKey, started, lastWriter>>
    /\ UNCHANGED appVars

Step(c) ==
    \/ Abort(c)
    \/ FetchSettles(c)
    \/ FetchAborted(c)
    \/ \E s \in Settlements, j \in JitterValues : HandleFailure(c, s, j)
    \/ \E s \in Settlements, d \in Payloads : ParseDone(c, s, d)
    \/ \E s \in Settlements, j \in JitterValues : ParseFails(c, s, j)
    \/ TimerFires(c)

Environment ==
    \/ \E t \in Instants : Tick(t)
    \/ \E v \in BOOLEAN : SetApiKey(v)
    \/ clearTmdbCache

\* One logical call at a time
Next ==
    \/ \E r \in Requests, a \in BOOLEAN : Call(r, a)
    \/ \E c \in Calls : Step(c)
    \/ Environment

Spec == Init /\ [][Next]_vars

\* What the runtime does for a pending call sooner or later: the request
\* completes or rejects, the continuation of the await runs, the timer fires
Progress(c) ==
    \/ FetchSettles(c)
    \/ FetchAborted(c)
    \/ \E s \in Settlements, j \in JitterValues : HandleFailure(c, s, j)
    \/ \E s \in Settlements, d \in Payloads : ParseDone(c, s, d)
    \/ \E s \in Settlements, j \in JitterValues : ParseFails(c, s, j)
    \/ TimerFires(c)

\* Calls and their steps alone: the clock, the environment variable and
\* clearTmdbCache have no part in how a pending call goes on
NextLive ==
    \/ \E r \in Requests, a \in BOOLEAN : Call(r, a)
    \/ \E c \in Calls : Step(c)

\* The client with every fetch settling and every timer firing in the end
SpecLive == Init /\ [][NextLive]_vars /\ \A c \in Calls : WF_vars(Progress(c))

---------------------------------------------------------------------------
\* MovieSearchScreen: actions

FreeSlot == CHOOSE c \in Calls : ~InFlight(calls[c])

\* handleSearch(term), from its entry to its first await, and beyond it when
\* searchMovies settles without suspending (a cache hit)
handleSearch(term) ==
    LET trimmedQuery == trim(term) IN
    IF isBlank(term)
    THEN /\ calls' = abortCurrent(calls, abortControllerRef)
         /\ results' = <<>>
         /\ errorState' = NoMessage
         /\ isLoading' = FALSE
         /\ UNCHANGED <<cache, started, abortControllerRef, searches>>
    ELSE IF ~apiKey
    THEN /\ errorState' = <<missingKeyMessage>>
         /\ results' = <<>>
         /\ isLoading' = FALSE
         /\ UNCHANGED <<calls, cache, started, abortControllerRef, searches>>
    ELSE /\ started < MaxCalls
         /\ \E free \in Calls : ~InFlight(calls[free])
         /\ LET c == FreeSlot
                k0 == [NewCall EXCEPT
                          !.req = searchMovies(trimmedQuery, [cacheKey |-> <<>>, signal |-> TRUE])]
                k == tmdbFetch(k0)
            IN  /\ calls' = [abortCurrent(calls, abortControllerRef) EXCEPT ![c] =
                                IF Ended(k) THEN Release(k) ELSE k]
                /\ cache' = tmdbFetchCache(k0)
                /\ abortControllerRef' = c
                /\ IF Ended(k)
                   THEN /\ results' = resumeResults(k, results)
                        /\ errorState' = resumeError(k, NoMessage)
                        /\ isLoading' = resumeLoading(k, TRUE)
                        /\ searches' = searches
                   ELSE /\ results' = results
                        /\ errorState' = NoMessage
                        /\ isLoading' = TRUE
                        /\ searches' = searches \cup {c}
         /\ started' = started + 1

\* onChangeText={setQuery} with a new text: the screen renders again and the
\* debounce effect re-runs
Keystroke(q) ==
    /\ mounted
    /\ q # query
    /\ query' = q
    /\ handler' = debounceEffect(handler, q)
    /\ sinceChange' = 0
    /\ UNCHANGED <<results, errorState, isLoading, abortControllerRef, searches, mounted>>
    /\ UNCHANGED <<clientVars, watchedVars, posterVars, cacheOp>>

\* d ms pass with no event of the screen
Elapse(d) ==
    /\ mounted
    /\ (handler.pending /\ handler.remaining > 0) \/ sinceChange < DEBOUNCE_IN_MS
    /\ handler' = IF handler.pending
                  THEN [handler EXCEPT !.remaining = Max(0, @ - d)]
                  ELSE handler
    /\ sinceChange' = Min(DEBOUNCE_IN_MS, sinceChange + d)
    /\ UNCHANGED <<query, results, errorState, isLoading, abortControllerRef, searches, mounted>>
    /\ UNCHANGED <<clientVars, watchedVars, posterVars, cacheOp>>

\* The timeout of the debounce effect is due: void handleSearch(query)
DebounceFires ==
    /\ mounted
    /\ handler.pending /\ handler.remaining = 0
    /\ handleSearch(handler.term)
    /\ handler' = NoTimeout
    /\ UNCHANGED <<now, apiKey, lastWriter, mounted, query, sinceChange>>
    /\ UNCHANGED <<watchedVars, posterVars, cacheOp>>

\* The screen unmounts: the cleanups of its effects run
Unmount ==
    /\ mounted
    /\ mounted' = FALSE
    /\ handler' = clearTimeout(handler)
    /\ calls' = abortCurrent(calls, abortControllerRef)
    /\ UNCHANGED <<cache, now, apiKey, started, lastWriter>>
    /\ UNCHANGED <<query, results, errorState, isLoading, abortControllerRef, searches, sinceChange>>
    /\ UNCHANGED <<watchedVars, posterVars, cacheOp>>

\* A step of a search the screen has started. The jitter of a backoff delay
\* does not reach the screen.
\* What the upstream answers a search with: a page, a client error, a server error
SearchSettlements == {Response(200), Response(404), Response(500)}

SearchStep(c) ==
    \/ FetchSettles(c)
    \/ FetchAborted(c)
    \/ \E s \in SearchSettlements : HandleFailure(c, s, 0)
    \/ \E s \in SearchSettlements, d \in Payloads : ParseDone(c, s, d)
    \/ \E s \in SearchSettlements : ParseFails(c, s, 0)
    \/ TimerFires(c)

InitSearch ==
    /\ calls = [c \in Calls |-> NewCall]
    /\ cache = <<>>
    /\ now = 0
    /\ apiKey \in BOOLEAN
    /\ started = 0
    /\ lastWriter = NoRequest
    /\ InitScreen(TRUE)
    /\ InitWatched(FALSE)
    /\ InitPoster
    /\ cacheOp = NoOp

NextSearch ==
    \/ \E q \in Queries : Keystroke(q)
    \/ \E d \in Durations : Elapse(d)
    \/ DebounceFires
    \/ Unmount
    \/ \E c \in Calls : SearchStep(c)

\* The search screen, from its mount on
SpecSearch == InitSearch /\ [][NextSearch]_vars

---------------------------------------------------------------------------
\* AuthProvider and WatchedMoviesProvider: actions

\* signIn with the credentials of user u, from the login screen
signIn(u) ==
    /\ user = NoUser
    /\ storage' = setItem(storage, CURRENT_USER_STORAGE_KEY, u)
    /\ user' = u
    /\ UNCHANGED <<watchedMovies, loading, savedBy>>
    /\ UNCHANGED <<clientVars, screenVars, posterVars, cacheOp, signUps>>

signOut ==
    /\ user # NoUser
    /\ storage' = removeItem(storage, CURRENT_USER_STORAGE_KEY)
    /\ user' = NoUser
    /\ UNCHANGED <<watchedMovies, loading, savedBy>>
    /\ UNCHANGED <<clientVars, screenVars, posterVars, cacheOp, signUps>>

\* saveWatchedMovie(movie), from the details screen of a signed-in user;
\* AsyncStorage.setItem may fail, which persistWatchedMovies only logs
saveWatchedMovie(movie, stored) ==
    /\ user # NoUser
    /\ watchedMovies' = nextList(watchedMovies, movie)
    /\ storage' = IF stored THEN setItem(storage, STORAGE_KEY, watchedMovies') ELSE storage
    /\ savedBy' = [savedBy EXCEPT ![movie.id] = user]
    /\ UNCHANGED <<user, loading>>
    /\ UNCHANGED <<clientVars, screenVars, posterVars, cacheOp, signUps>>

\* loadWatchedMovies of the provider's mount effect completes
loadWatchedMovies ==
    /\ loading
    /\ loading' = FALSE
    /\ watchedMovies' = IF STORAGE_KEY \in DOMAIN storage
                        THEN storage[STORAGE_KEY]
                        ELSE watchedMovies
    /\ UNCHANGED <<user, storage, savedBy>>
    /\ UNCHANGED <<clientVars, screenVars, posterVars, cacheOp, signUps>>

\* The app is started again: the providers mount anew, the session is read
\* back from storage
Relaunch ==
    /\ ~loading
    /\ user' = getCurrentUser(storage)
    /\ watchedMovies' = <<>>
    /\ loading' = TRUE
    /\ UNCHANGED <<storage, savedBy>>
    /\ UNCHANGED <<clientVars, screenVars, posterVars, cacheOp, signUps>>

\* signUp(params), from its entry to `await findUserByEmail(...)`; name,
\* password and picture are given
signUp(p, email) ==
    LET normalizedEmail == normalizeEmail(email) IN
    /\ signUps[p].pc = "idle"
    /\ Len(getStoredUsers(storage)) < MaxUsers
    /\ signUps' = [signUps EXCEPT ![p] =
                      IF normalizedEmail = <<>> \/ ~emailPattern(normalizedEmail)
                      THEN NoSignUp
                      ELSE [pc |-> "finding", email |-> normalizedEmail, users |-> <<>>]]
    /\ UNCHANGED <<user, watchedMovies, storage, loading, savedBy>>
    /\ UNCHANGED <<clientVars, screenVars, posterVars, cacheOp>>

\* findUserByEmail resolves: the stored list is read and searched; signUp
\* throws when the e-mail is found, else it calls addStoredUser
findUserByEmailResolves(p) ==
    LET users == getStoredUsers(storage)
        normalizedEmail == normalizeEmail(signUps[p].email)
    IN
    /\ signUps[p].pc = "finding"
    /\ signUps' = [signUps EXCEPT ![p] =
                      IF \E i \in 1..Len(users) : users[i].email = normalizedEmail
                      THEN NoSignUp
                      ELSE [@ EXCEPT !.pc = "adding"]]
    /\ UNCHANGED <<user, watchedMovies, storage, loading, savedBy>>
    /\ UNCHANGED <<clientVars, screenVars, posterVars, cacheOp>>

\* addStoredUser: getStoredUsers resolves, the new user is pushed onto the
\* list read and storeUsers(users) is called
addStoredUserPushes(p) ==
    /\ signUps[p].pc = "adding"
    /\ signUps' = [signUps EXCEPT ![p] =
                      [@ EXCEPT !.pc = "storing",
                                !.users = Append(getStoredUsers(storage), newUser(p))]]
    /\ UNCHANGED <<user, watchedMovies, storage, loading, savedBy>>
    /\ UNCHANGED <<clientVars, screenVars, posterVars, cacheOp>>

\* storeUsers resolves: the list is written; signUp calls setCurrentUser
storeUsersResolves(p) ==
    /\ signUps[p].pc = "storing"
    /\ storage' = setItem(storage, USERS_STORAGE_KEY, signUps[p].users)
    /\ signUps' = [signUps EXCEPT ![p] = [@ EXCEPT !.pc = "signing", !.users = <<>>]]
    /\ UNCHANGED <<user, watchedMovies, loading, savedBy>>
    /\ UNCHANGED <<clientVars, screenVars, posterVars, cacheOp>>

\* setCurrentUser resolves: setUser(newUser), return newUser
setCurrentUserResolves(p) ==
    /\ signUps[p].pc = "signing"
    /\ storage' = setItem(storage, CURRENT_USER_STORAGE_KEY, newUser(p))
    /\ user' = newUser(p)
    /\ signUps' = [signUps EXCEPT ![p] = NoSignUp]
    /\ UNCHANGED <<watchedMovies, loading, savedBy>>
    /\ UNCHANGED <<clientVars, screenVars, posterVars, cacheOp>>

NextAuth ==
    \/ \E p \in SignUpCalls, email \in EmailInputs : signUp(p, email)
    \/ \E p \in SignUpCalls : findUserByEmailResolves(p)
    \/ \E p \in SignUpCalls : addStoredUserPushes(p)
    \/ \E p \in SignUpCalls : storeUsersResolves(p)
    \/ \E p \in SignUpCalls : setCurrentUserResolves(p)

\* Sign-ups that may overlap
SpecAuth == InitConfigured /\ [][NextAuth]_vars

InitApp ==
    /\ calls = [c \in Calls |-> NewCall]
    /\ cache = <<>>
    /\ now = 0
    /\ apiKey = TRUE
    /\ started = 0
    /\ lastWriter = NoRequest
    /\ InitScreen(FALSE)
    /\ InitWatched(TRUE)
    /\ InitPoster
    /\ cacheOp = NoOp

NextApp ==
    \/ \E u \in Users : signIn(u)
    \/ signOut
    \/ \E movie \in WatchedInputs, stored \in BOOLEAN : saveWatchedMovie(movie, stored)
    \/ loadWatchedMovies
    \/ Relaunch

\* The accounts and the watched list
SpecApp == InitApp /\ [][NextApp]_vars

---------------------------------------------------------------------------
\* getPosterUrl: actions

\* A list item renders its poster
RenderPoster ==
    /\ posterUrl = NotRendered
    /\ posterUrl' = getPosterUrl(posterPath, posterSize)
    /\ UNCHANGED <<posterPath, posterSize>>
    /\ UNCHANGED <<clientVars, screenVars, watchedVars, cacheOp>>

\* The list item is given another movie
NextPoster(path, size) ==
    /\ posterUrl # NotRendered
    /\ posterPath' = path
    /\ posterSize' = size
    /\ posterUrl' = NotRendered
    /\ UNCHANGED <<clientVars, screenVars, watchedVars, cacheOp>>

InitPosters ==
    /\ calls = [c \in Calls |-> NewCall]
    /\ cache = <<>>
    /\ now = 0
    /\ apiKey = TRUE
    /\ started = 0
    /\ lastWriter = NoRequest
    /\ InitScreen(FALSE)
    /\ InitWatched(FALSE)
    /\ posterPath \in PathInputs
    /\ posterSize \in SizeInputs
    /\ posterUrl = NotRendered
    /\ cacheOp = NoOp

NextPosters ==
    \/ RenderPoster
    \/ \E path \in PathInputs, size \in SizeInputs : NextPoster(path, size)

\* Posters of list items
SpecPoster == InitPosters /\ [][NextPosters]_vars

---------------------------------------------------------------------------
\* Callers that do not wait for one another: the details calls of the
\* trending list, made together, and searches under one key

\* The trending list asks for a movie's details with no options; searches
\* whose terms differ in case and padding share their key
OverlapRequests ==
    {getMovieDetails(i, o) : i \in MovieIds, o \in Options({<<>>}, {FALSE})}
    \cup {searchMovies(t, o) : t \in Terms, o \in Options({<<>>}, {TRUE})}

\* What the upstream answers these calls with: a payload or a server error
OverlapStep(c) ==
    \/ FetchSettles(c)
    \/ HandleFailure(c, Response(500), 0)
    \/ \E d \in Payloads : ParseDone(c, Response(200), d)
    \/ TimerFires(c)

NextOverlap ==
    \/ \E c \in Calls, r \in OverlapRequests : StartCall(c, r, FALSE)
    \/ \E c \in Calls : OverlapStep(c)
    \/ \E t \in Instants : Tick(t)

\* Calls that overlap
SpecOverlap == InitConfigured /\ [][NextOverlap]_vars

---------------------------------------------------------------------------
\* The cache used directly: getCache, setCache, clearTmdbCache and
\* getTmdbCacheSize, each called on its own

\* getCache(url, cacheKey)
CallGetCache(url, cacheKey) ==
    LET key == getCacheKey(url, cacheKey) IN
    /\ cacheOp' = [op |-> "getCache", key |-> key,
                    cached |-> IF key \in DOMAIN cache THEN cache[key] ELSE Undefined,
                    value |-> getCache(url, cacheKey), size |-> 0]
    /\ cache' = getCacheEffect(url, cacheKey)
    /\ UNCHANGED <<calls, now, apiKey, started, lastWriter>>
    /\ UNCHANGED <<screenVars, watchedVars, posterVars>>

\* setCache(url, data, cacheKey)
CallSetCache(url, data, cacheKey) ==
    /\ cacheOp' = [op |-> "setCache", key |-> getCacheKey(url, cacheKey),
                    cached |-> Undefined, value |-> data, size |-> 0]
    /\ cache' = setCache(url, data, cacheKey)
    /\ UNCHANGED <<calls, now, apiKey, started, lastWriter>>
    /\ UNCHANGED <<screenVars, watchedVars, posterVars>>

\* clearTmdbCache()
CallClearTmdbCache ==
    /\ cacheOp' = [NoOp EXCEPT !.op = "clearTmdbCache"]
    /\ cache' = <<>>
    /\ UNCHANGED <<calls, now, apiKey, started, lastWriter>>
    /\ UNCHANGED <<screenVars, watchedVars, posterVars>>

\* getTmdbCacheSize()
CallGetTmdbCacheSize ==
    /\ cacheOp' = [NoOp EXCEPT !.op = "getTmdbCacheSize", !.size = getTmdbCacheSize]
    /\ UNCHANGED clientVars
    /\ UNCHANGED <<screenVars, watchedVars, posterVars>>

NextCache ==
    \/ \E a \in CacheArguments : CallGetCache(a.url, a.cacheKey)
    \/ \E a \in CacheArguments, data \in Payloads : CallSetCache(a.url, data, a.cacheKey)
    \/ CallClearTmdbCache
    \/ CallGetTmdbCacheSize
    \/ \E t \in Instants : Tick(t)

\* The cache and its four operations
SpecCache == InitConfigured /\ [][NextCache]_vars

---------------------------------------------------------------------------
\* Expected values, written out independently of the operators above

KeyBatman == <<"s", "e", "a", "r", "c", "h", ":", "b", "a", "t", "m", "a", "n">>
KeyMovie680 == <<"m", "o", "v", "i", "e", ":", "6", "8", "0">>

\* The key a request resolves to: the caller's cacheKey, else the default
ExpectedKey(r) ==
    IF r.callerKey # <<>> THEN r.callerKey[1]
    ELSE IF r.fn = "searchMovies" THEN KeyBatman ELSE KeyMovie680

\* This step is call c entering searchMovies / getMovieDetails
Starts(c) == started' = started + 1 /\ calls'[c] # calls[c]

\* This step is call c returning the payload it fetched
ReturnsFetched(c) == calls[c].pc = "settled" /\ calls'[c].pc = "returned"

Cancelled(k) == k.req.signal /\ k.signalAborted
Raised(k, e) == k.pc = "raised" /\ k.outcome = Thrown(e)
RetriableErrors == {NetworkError, ParseError, HttpError("Error", 304), HttpError("Error", 500)}

\* C1: a call whose external signal fired before it returned has written
\* nothing to the cache.
C1_CancelledCallNeverWrites ==
    \A c \in Calls : Cancelled(calls[c]) => calls[c].cacheWrites = 0

\* C2: a cache read of a stored key returns the stored value while its age is
\* below the TTL and returns absent once its age is >= TTL (at exactly
\* t0 + TTL too).
C2_CacheFreshness ==
    [][\A c \in Calls :
        LET key == calls'[c].req.cacheKey[1] IN
        (Starts(c) /\ apiKey /\ key \in DOMAIN cache) =>
            IF now - cache[key].timestamp < 300000
            THEN calls'[c].cachedResponse = cache[key].data
            ELSE calls'[c].cachedResponse = Undefined]_vars

\* C3: a call never makes more than 3 network attempts, and a call that ends
\* with a retriable failure (an HTTP error outside 4xx, a network error, an
\* unreadable body) has made exactly 3 attempts with 2 sleeps between them.
C3_RetryBound ==
    \A c \in Calls :
        /\ calls[c].fetchCalls <= 3 /\ calls[c].netAttempts <= 3
        /\ (calls[c].pc = "raised" /\ calls[c].outcome.error \in RetriableErrors) =>
              /\ calls[c].netAttempts = 3
              /\ calls[c].fetchCalls = 3
              /\ calls[c].sleeps = 2

C3_Witness ==
    \E c \in Calls : Raised(calls[c], HttpError("Error", 500)) /\ calls[c].netAttempts = 3

\* C4: an uncancelled call whose attempt received a status in [400, 500) has
\* raised the client error at once: no sleep follows that attempt, no further
\* attempt is made, nothing is written; on the first attempt that is one
\* network attempt in total.
C4_ClientErrorFastPath ==
    \A c \in Calls :
        LET k == calls[c] IN
        (k.settled.kind = "response" /\ k.settled.status >= 400 /\ k.settled.status < 500
            /\ ~k.signalAborted) =>
            /\ Raised(k, HttpError("ClientError", k.settled.status))
            /\ k.cacheWrites = 0
            /\ k.netAttempts = k.attempt /\ k.fetchCalls = k.attempt
            /\ k.sleeps = k.attempt - 1
            /\ k.attempt = 1 => (k.netAttempts = 1 /\ k.sleeps = 0)

C4_Witness ==
    \E c \in Calls :
        /\ Raised(calls[c], HttpError("ClientError", 404))
        /\ calls[c].netAttempts = 1 /\ calls[c].sleeps = 0

\* C5: a call that reached its retry loop and whose signal was already
\* aborted at call start, or fired while the first request was outstanding,
\* ends with the AbortError, writes nothing and starts no further attempt.
C5_CancellationPrecedence ==
    \A c \in Calls :
        LET k == calls[c] IN
        (k.fetchCalls >= 1 /\ k.abortPoint \in {<<"start", 0>>, <<"fetching", 1>>}) =>
            /\ k.pc \in {"fetching", "raised"}
            /\ k.pc = "raised" => k.outcome = Thrown(AbortError)
            /\ k.cacheWrites = 0
            /\ k.fetchCalls = 1
            /\ k.netAttempts = (IF k.abortPoint = <<"start", 0>> THEN 0 ELSE 1)
            /\ k.sleeps = 0

C5_Witness ==
    \E c \in Calls :
        /\ calls[c].abortPoint = <<"fetching", 1>>
        /\ Raised(calls[c], AbortError)

\* C6: a call sleeping between two attempts whose signal fires raises the
\* cancellation error at once: no call is asleep with a fired signal.
C6_CancelCutsSleepShort ==
    \A c \in Calls : ~(calls[c].pc = "sleeping" /\ Cancelled(calls[c]))

\* C7: searches without a caller cacheKey whose terms are equal after trim
\* and lower-casing share the key "search:batman": a search whose first
\* attempt succeeds makes one network attempt and stores its payload under
\* that key, and a search started while that entry is younger than the TTL
\* returns the stored payload with no fetch.
C7_NormalizedKeyHits ==
    [][\A c \in Calls :
        LET r == calls'[c].req
            plain == r.fn = "searchMovies" /\ r.callerKey = <<>> /\ r.term \in Terms
        IN
        /\ (ReturnsFetched(c) /\ plain) =>
              /\ KeyBatman \in DOMAIN cache'
              /\ cache'[KeyBatman].data = calls'[c].outcome.value
              /\ calls[c].attempt = 1 => calls'[c].netAttempts = 1
        /\ (Starts(c) /\ plain /\ apiKey /\ KeyBatman \in DOMAIN cache
                /\ now - cache[KeyBatman].timestamp < 300000) =>
              /\ calls'[c].pc = "returned"
              /\ calls'[c].outcome = Returned(cache[KeyBatman].data)
              /\ calls'[c].fetchCalls = 0 /\ calls'[c].netAttempts = 0]_vars

C7_Witness ==
    \E c \in Calls :
        /\ calls[c].pc = "returned" /\ calls[c].fetchCalls = 0
        /\ calls[c].req.term = BatmanPadded /\ calls[c].req.callerKey = <<>>
        /\ lastWriter.term = Batman /\ lastWriter.callerKey = <<>>
        /\ calls[c].outcome = Returned(cache[KeyBatman].data)

\* C8: a call that returns a fetched payload has written the cache exactly
\* once, in the step in which it returns: the entry under its resolved key
\* (the caller's cacheKey, else the default key) becomes {now, payload} and no
\* other entry changes; a call still in flight, whatever attempts of it have
\* failed, has written nothing.
C8_OneWriteOnSuccess ==
    [][\A c \in Calls :
        /\ ReturnsFetched(c) =>
              LET key == ExpectedKey(calls[c].req) IN
              /\ calls[c].cacheWrites = 0 /\ calls'[c].cacheWrites = 1
              /\ DOMAIN cache' = DOMAIN cache \cup {key}
              /\ cache'[key] = [timestamp |-> now, data |-> calls'[c].outcome.value]
              /\ \A other \in DOMAIN cache \ {key} : cache'[other] = cache[other]
        /\ (calls'[c].pc \in {"fetching", "settled", "sleeping"}) => calls'[c].cacheWrites = 0]_vars

C8_Witness ==
    \E c \in Calls :
        /\ calls[c].pc = "returned" /\ calls[c].cacheWrites = 1 /\ calls[c].attempt = 2
        /\ calls[c].req.callerKey = <<CustomKey>>
        /\ cache[CustomKey].data = calls[c].outcome.value

\* What the third attempt observed, from what its fetch delivered
ObservedError(s) ==
    IF s.kind = "rejected" THEN NetworkError
    ELSE IF s.status >= 200 /\ s.status <= 299 THEN ParseError
    ELSE IF s.status >= 400 /\ s.status < 500 THEN HttpError("ClientError", s.status)
    ELSE HttpError("Error", s.status)

\* C9: when the third attempt of an uncancelled call fails, the error raised
\* is the one that attempt observed; the generic fallback error is never
\* raised while an error has been captured.
C9_LastErrorSurfaces ==
    [][\A c \in Calls :
        /\ (calls[c].pc = "settled" /\ calls[c].attempt = 3 /\ ~calls[c].controllerAborted
                /\ calls'[c].pc = "raised") =>
              calls'[c].outcome = Thrown(ObservedError(calls'[c].settled))
        /\ (calls'[c].pc = "raised" /\ calls'[c].outcome = Thrown(FallbackError)) =>
              calls'[c].lastError = NoError]_vars

C9_Witness ==
    \E c \in Calls :
        /\ Raised(calls[c], NetworkError)
        /\ calls[c].attempt = 3 /\ calls[c].settled = NetworkFailure

\* C10: a call made while no API key is configured raises the configuration
\* error in its first step, with no fetch, no sleep, no cache read and the
\* cache left as it was, whether or not a fresh entry exists under its key.
C10_ConfigurationError ==
    [][\A c \in Calls :
        (Starts(c) /\ ~apiKey) =>
            /\ calls'[c].pc = "raised"
            /\ calls'[c].outcome = Thrown(ConfigError)
            /\ calls'[c].fetchCalls = 0 /\ calls'[c].netAttempts = 0
            /\ calls'[c].sleeps = 0 /\ calls'[c].cacheWrites = 0
            /\ calls'[c].cachedResponse = Undefined
            /\ cache' = cache]_vars

C10_Witness ==
    \E c \in Calls :
        LET key == ExpectedKey(calls[c].req) IN
        /\ Raised(calls[c], ConfigError)
        /\ calls[c].req.fn = "getMovieDetails"
        /\ key \in DOMAIN cache /\ now - cache[key].timestamp < 300000

---------------------------------------------------------------------------
\* The search screen

\* This step is the debounce timeout running handleSearch
HandleSearchRuns == mounted /\ mounted' /\ handler.pending /\ ~handler'.pending

\* This step starts a search from the screen
SearchStarts == started' = started + 1

\* The calls of the screen that are pending with a signal that has not fired
LiveSearches(cs) == {c \in Calls : cs[c].pc \in {"fetching", "settled", "sleeping"} /\ ~cs[c].signalAborted}

\* C11: a search whose signal has fired (superseded by a later handleSearch, by
\* a blank query or by the unmount) leaves the results list and the error
\* message as they are in the step in which it completes, whether it completes
\* with data, with the cancellation error or with another error.
C11_SupersededNeverAdopted ==
    [][\A c \in Calls :
        (c \in searches /\ calls'[c].pc \in {"returned", "raised"} /\ calls'[c].signalAborted) =>
            /\ results' = results
            /\ errorState' = errorState]_vars

C11_Witness ==
    \E c \in Calls :
        /\ mounted /\ c \notin searches
        /\ calls[c].pc = "returned" /\ calls[c].abortPoint[1] = "settled"
        /\ calls[c].outcome.value = SearchPage
        /\ results = <<>>

C13_Debounce ==
    [][/\ HandleSearchRuns =>
            /\ sinceChange >= 500
            /\ handler.term = query
            /\ handler' = [pending |-> FALSE, term |-> <<>>, remaining |-> 0]
       /\ SearchStarts =>
            /\ sinceChange >= 500
            /\ calls'[abortControllerRef'].req.term = trim(query)
       /\ query' # query =>
            handler' = [pending |-> TRUE, term |-> query', remaining |-> 500]]_vars

C13_Witness ==
    /\ mounted /\ query = BatmanPadded /\ sinceChange = 500 /\ ~handler.pending
    /\ started = 2
    /\ \E c \in Calls :
          /\ abortControllerRef = c /\ calls[c].pc = "fetching"
          /\ calls[c].req.term = <<"B", "a", "t", "m", "a", "n">>

\* C14: a handleSearch for a text that is empty after trimming starts no call
\* (no fetch, no request, no cache read or write), fires the signal of every
\* search still pending, and leaves the results empty, the error cleared and
\* the loading flag false.
C14_BlankShortCircuits ==
    [][(HandleSearchRuns /\ trim(handler.term) = <<>>) =>
            /\ started' = started
            /\ cache' = cache
            /\ \A c \in Calls :
                  /\ calls'[c].pc = calls[c].pc
                  /\ calls'[c].fetchCalls = calls[c].fetchCalls
                  /\ calls'[c].netAttempts = calls[c].netAttempts
                  /\ calls'[c].cacheWrites = calls[c].cacheWrites
                  /\ calls'[c].cachedResponse = calls[c].cachedResponse
                  /\ calls[c].pc \in {"fetching", "settled", "sleeping"} => calls'[c].signalAborted
            /\ results' = <<>>
            /\ errorState' = <<>>
            /\ isLoading' = FALSE]_vars

C14_Witness ==
    \E c \in Calls :
        /\ mounted /\ query = Blank /\ ~handler.pending
        /\ abortControllerRef = c
        /\ calls[c].pc \in {"fetching", "settled", "sleeping"} /\ calls[c].signalAborted
        /\ results = <<>> /\ errorState = <<>> /\ ~isLoading

---------------------------------------------------------------------------
\* The watched list

\* C15: while a user is signed in, every entry of the watched list that is
\* shown was saved by that user: a movie saved while A is signed in is not in
\* the list while B is signed in.
C15_WatchedListScoped ==
    user # "none" =>
        \A i \in 1..Len(watchedMovies) : savedBy[watchedMovies[i].id] = user

---------------------------------------------------------------------------
\* Posters

\* C16: for a path that is given and not empty, getPosterUrl returns the image
\* base, "/", the size (w185 when none is given) and the path, in that order;
\* for a missing or empty path it returns undefined; no call is made and the
\* cache stays as it is.
C16_PosterUrl ==
    posterUrl.type # "pending" =>
        /\ IF posterPath = <<>> \/ posterPath = << <<>> >>
           THEN posterUrl = [type |-> "undefined"]
           ELSE /\ posterUrl.type = "string"
                /\ posterUrl.value =
                      <<"https://image.tmdb.org/t/p", "/">>
                      \o (IF posterSize = <<>> THEN <<"w185">> ELSE posterSize)
                      \o posterPath[1]
        /\ started = 0 /\ cache = <<>>
        /\ \A c \in Calls : calls[c].pc = "idle" /\ calls[c].fetchCalls = 0

C16_Witness ==
    /\ posterPath = << <<"/", "a", ".">> >> /\ posterSize = <<>>
    /\ posterUrl = [type |-> "string",
                    value |-> <<"https://image.tmdb.org/t/p", "/", "w185", "/", "a", ".">>]

---------------------------------------------------------------------------
\* The retry loop

\* C17: within a call an attempt starts only at the entry of the call (the
\* first) or when the sleep after a failed attempt ends (the next one, one at
\* a time), so never while a request of the call is outstanding or its
\* response is being handled; a call that has returned or raised starts none.
C17_SequentialAttempts ==
    [][\A c \in Calls :
        LET k == calls[c]
            k2 == calls'[c]
        IN
        /\ Starts(c) => k2.fetchCalls <= 1 /\ k2.netAttempts <= 1 /\ k2.attempt <= 1
        /\ (~Starts(c) /\ (k2.fetchCalls # k.fetchCalls \/ k2.netAttempts # k.netAttempts
                            \/ k2.attempt # k.attempt)) =>
              /\ k.pc = "sleeping"
              /\ k.lastError # NoError
              /\ k2.attempt = k.attempt + 1
              /\ k2.fetchCalls = k.fetchCalls + 1
              /\ k2.netAttempts \in {k.netAttempts, k.netAttempts + 1}
        /\ (~Starts(c) /\ k.pc \in {"returned", "raised"}) => k2 = k]_vars

C17_Witness ==
    \E c \in Calls :
        /\ calls[c].pc = "fetching" /\ calls[c].attempt = 3
        /\ calls[c].netAttempts = 3 /\ calls[c].sleeps = 2

\* C18: once an attempt has ended (the call sleeps, has returned or has
\* raised) none of its listeners is registered on the caller's signal, and
\* the listeners of a call never number more than one.
C18_NoListenerLeak ==
    \A c \in Calls :
        /\ calls[c].listeners <= 1
        /\ calls[c].pc \in {"sleeping", "returned", "raised"} => calls[c].listeners = 0

\* C19: when a failed attempt is handled (or the next attempt is due) and the
\* caller's signal has fired, the call raises the AbortError, whatever the
\* attempt received; a call raises an error named AbortError only if it was
\* given a signal and that signal has fired.
C19_CancellationDistinct ==
    [][\A c \in Calls :
        LET k == calls[c]
            k2 == calls'[c]
        IN
        /\ (k.signalAborted /\ k.pc \in {"fetching", "settled", "sleeping"}
                /\ k2.pc \in {"sleeping", "raised"} /\ k2 # k) =>
              /\ k2.pc = "raised"
              /\ k2.outcome = [kind |-> "throw",
                               error |-> [name |-> "AbortError",
                                          message |-> "A requisicao foi cancelada.",
                                          status |-> 0]]
        /\ (k2.pc = "raised" /\ k2.outcome.error.name = "AbortError") =>
              k2.req.signal /\ k2.signalAborted]_vars

C19_Witness ==
    \E c \in Calls :
        /\ Raised(calls[c], AbortError)
        /\ calls[c].abortPoint = <<"settled", 1>>
        /\ calls[c].settled = Response(404)

\* C20: the sleep after failed attempt 1 lasts 300 ms plus a jitter below
\* 100 ms and the one after failed attempt 2 lasts 600 ms plus a jitter below
\* 100 ms, longer than the first whatever the jitters; no sleep follows
\* attempt 3, and a call that ran out of attempts has slept twice.
C20_BackoffDelays ==
    [][\A c \in Calls :
        LET k == calls[c]
            k2 == calls'[c]
        IN
        /\ (k2.pc = "sleeping" /\ k.pc # "sleeping") =>
              /\ k2.attempt \in {1, 2}
              /\ k2.sleeps = k2.attempt
              /\ k2.attempt = 1 => (k2.delayMs >= 300 /\ k2.delayMs < 400)
              /\ k2.attempt = 2 => (k2.delayMs >= 600 /\ k2.delayMs < 700
                                    /\ k2.delayMs > k.delayMs /\ k.delayMs >= 300)
        /\ (k2.pc = "raised" /\ k2.attempt = 3 /\ k2.outcome.error \in RetriableErrors) =>
              k2.sleeps = 2]_vars

C20_Witness ==
    \E c \in Calls :
        /\ calls[c].pc = "raised" /\ calls[c].attempt = 3
        /\ calls[c].outcome.error \in RetriableErrors
        /\ calls[c].sleeps = 2 /\ calls[c].delayMs = 699

---------------------------------------------------------------------------
\* The client, continued

\* C21: when an uncancelled attempt receives a status that is neither 2xx nor
\* 4xx, the call does what it does after a network failure: it records the
\* error (not named ClientError), sleeps and tries again after attempts 1 and
\* 2, and raises that error after attempt 3; it never raises before attempt 3.
C21_OtherStatusesRetried ==
    [][\A c \in Calls :
        LET k == calls[c]
            k2 == calls'[c]
            s == k2.settled
        IN
        (k.pc = "settled" /\ ~k.controllerAborted /\ k2.pc # "settled"
            /\ s.kind = "response"
            /\ ~(s.status >= 200 /\ s.status <= 299)
            /\ ~(s.status >= 400 /\ s.status <= 499)) =>
            /\ k2.lastError = [name |-> "Error", message |-> "TMDb respondeu com status",
                               status |-> s.status]
            /\ k2.cacheWrites = 0
            /\ IF k.attempt < 3
               THEN k2.pc = "sleeping" /\ k2.attempt = k.attempt /\ k2.sleeps = k.sleeps + 1
               ELSE /\ k2.pc = "raised" /\ k2.outcome = Thrown(k2.lastError)
                    /\ k2.netAttempts = 3 /\ k2.sleeps = 2]_vars

C21_Witness ==
    \E c \in Calls :
        /\ Raised(calls[c], HttpError("Error", 304))
        /\ calls[c].netAttempts = 3 /\ calls[c].settled = Response(304)

\* C22: a getCache for a key whose entry is older than the TTL returns
\* undefined and deletes that entry and no other; a getCache for a key that is
\* missing, or whose entry is younger than the TTL, leaves the cache as it is
\* (and returns undefined, or the entry's data); whatever the age, the entry
\* is deleted exactly when it is reported absent. A step that removes an entry
\* is such a getCache or a clearTmdbCache; clearTmdbCache leaves no entry;
\* getTmdbCacheSize returns the number of entries, expired ones included.
C22_EvictionOnRead ==
    [][LET op == cacheOp'
           key == op.key
           removed == DOMAIN cache \ DOMAIN cache'
       IN
       /\ (op.op = "getCache" /\ now' = now) =>
             /\ IF key \notin DOMAIN cache
                THEN op.value = [type |-> "undefined"] /\ cache' = cache
                ELSE IF now - cache[key].timestamp > 300000
                THEN op.value = [type |-> "undefined"] /\ removed = {key}
                ELSE IF now - cache[key].timestamp < 300000
                THEN op.value = cache[key].data /\ cache' = cache
                ELSE \/ op.value = [type |-> "undefined"] /\ removed = {key}
                     \/ op.value = cache[key].data /\ cache' = cache
             /\ \A k \in DOMAIN cache' : k \in DOMAIN cache /\ cache'[k] = cache[k]
       /\ removed # {} => now' = now /\ op.op \in {"getCache", "clearTmdbCache"}
       /\ (op.op = "clearTmdbCache" /\ now' = now) => Cardinality(DOMAIN cache') = 0
       /\ (op.op = "getTmdbCacheSize" /\ now' = now) =>
             /\ op.size = Cardinality(DOMAIN cache)
             /\ cache' = cache]_vars

\* An expired entry was read and deleted while another expired entry, not
\* read, is still counted
C22_Witness ==
    /\ cacheOp.op = "getCache" /\ cacheOp.value = Undefined
    /\ cacheOp.cached # Undefined /\ cacheOp.key \notin DOMAIN cache
    /\ \E k \in DOMAIN cache : now - cache[k].timestamp > 300000

\* C23: a call whose tmdbFetch raised (the configuration error, a client
\* error, a server, network or parse error, the cancellation error) has
\* searchMovies / getMovieDetails raise that very error; a call whose
\* tmdbFetch returned a payload has getMovieDetails return the payload and
\* searchMovies return its results field, or the empty list when the payload
\* has none; the empty list is never the answer to a failure.
C23_ErrorsPropagate ==
    \A c \in Calls :
        LET k == calls[c] IN
        /\ k.pc = "raised" =>
              /\ k.outcome.kind = "throw"
              /\ k.result = [kind |-> "throw", error |-> k.outcome.error]
        /\ k.pc = "returned" =>
              /\ k.outcome.kind = "return"
              /\ k.req.fn = "getMovieDetails" => k.result = k.outcome
              /\ k.req.fn = "searchMovies" =>
                    k.result = [kind |-> "return",
                                value |-> IF "results" \in DOMAIN k.outcome.value
                                          THEN k.outcome.value.results
                                          ELSE <<>>]
        /\ k.pc \in {"idle", "fetching", "settled", "sleeping"} =>
              k.result = [kind |-> "pending"]

C23_Witness ==
    \E c \in Calls :
        /\ calls[c].req.fn = "searchMovies"
        /\ Raised(calls[c], HttpError("ClientError", 404))
        /\ calls[c].result = Thrown(HttpError("ClientError", 404))

\* C24: the cache changes during a call only in the step in which the call
\* enters (where the entry under its own key, if older than the TTL, is
\* deleted and nothing else changes) and in the step in which it returns the
\* payload it fetched; every other step of a call, the one in which it raises
\* included, leaves the cache as it is, and a call that raised has made no
\* cache write.
C24_RaisingCallKeepsCache ==
    [][\A c \in Calls :
        LET k == calls[c]
            k2 == calls'[c]
            key == ExpectedKey(k2.req)
        IN
        /\ Starts(c) =>
              \/ cache' = cache
              \/ /\ key \in DOMAIN cache /\ now - cache[key].timestamp > 300000
                 /\ DOMAIN cache' = DOMAIN cache \ {key}
                 /\ \A other \in DOMAIN cache' : cache'[other] = cache[other]
        /\ (k.pc \in {"fetching", "settled", "sleeping"} /\ k2.pc # "returned") =>
              cache' = cache
        /\ k2.pc = "raised" => k2.cacheWrites = 0]_vars

\* A call found the entry under its key expired, deleted it, and raised after
\* three attempts: the cache is left without that entry and with no new one
C24_Witness ==
    \E c \in Calls :
        /\ Raised(calls[c], HttpError("Error", 500))
        /\ lastWriter.cacheKey = calls[c].req.cacheKey
        /\ now = 300001 /\ cache = <<>>
        /\ calls[c].cacheWrites = 0 /\ calls[c].netAttempts = 3

\* C25: a call that enters with an API key configured, an entry younger than
\* the TTL under its key and a signal that has already fired returns the
\* payload of that entry in its first step: no fetch, no request, no sleep, no
\* error, the cache left as it is.
C25_HitBeforeCancellation ==
    [][\A c \in Calls :
        LET k2 == calls'[c]
            key == ExpectedKey(k2.req)
        IN
        (Starts(c) /\ apiKey /\ k2.req.signal /\ k2.signalAborted
            /\ key \in DOMAIN cache /\ now - cache[key].timestamp < 300000) =>
            /\ k2.pc = "returned"
            /\ k2.outcome = [kind |-> "return", value |-> cache[key].data]
            /\ k2.fetchCalls = 0 /\ k2.netAttempts = 0 /\ k2.sleeps = 0
            /\ cache' = cache]_vars

C25_Witness ==
    \E c \in Calls :
        /\ calls[c].pc = "returned" /\ calls[c].abortPoint = <<"start", 0>>
        /\ calls[c].req.signal /\ calls[c].signalAborted
        /\ calls[c].fetchCalls = 0 /\ calls[c].netAttempts = 0
        /\ ExpectedKey(calls[c].req) \in DOMAIN cache
        /\ calls[c].outcome = Returned(cache[ExpectedKey(calls[c].req)].data)

\* C26: a call that enters while no entry younger than the TTL is stored
\* under its key sends its own request, whether or not another call for that
\* key is pending; every call that returns a fetched payload has made at least
\* one request of its own and leaves, under its key, its own payload stamped
\* with the time of that step, replacing what a call before it stored: after
\* two such calls the entry is that of the one handled last.
C26_NoCoalescing ==
    [][\A c \in Calls :
        LET k == calls[c]
            k2 == calls'[c]
            key == ExpectedKey(k2.req)
        IN
        /\ (Starts(c) /\ (key \notin DOMAIN cache \/ now - cache[key].timestamp > 300000)) =>
              /\ k2.pc = "fetching"
              /\ k2.fetchCalls = 1 /\ k2.netAttempts = 1
        /\ ReturnsFetched(c) =>
              /\ k2.netAttempts >= 1
              /\ key \in DOMAIN cache'
              /\ cache'[key] = [timestamp |-> now, data |-> k2.outcome.value]]_vars

\* Two calls for one key were pending together (no time has passed, so the
\* entry of the first could not have expired): both sent a request, both
\* wrote, and the entry is that of one of them
C26_Witness ==
    /\ now = 0
    /\ \A c \in Calls :
          /\ calls[c].pc = "returned"
          /\ calls[c].netAttempts = 1 /\ calls[c].cacheWrites = 1
          /\ ExpectedKey(calls[c].req) = KeyBatman
    /\ calls["c1"].outcome.value # calls["c2"].outcome.value
    /\ KeyBatman \in DOMAIN cache
    /\ cache[KeyBatman].data = calls["c1"].outcome.value

\* C27: a call never invokes fetch more than 3 times nor sleeps more than
\* twice, and, every fetch settling and every timer firing in the end, a
\* pending call returns or raises in the end, whatever the statuses, the
\* failures and the moment its signal fires.
C27_Terminates ==
    /\ [](\A c \in Calls : calls[c].fetchCalls <= 3 /\ calls[c].sleeps <= 2)
    /\ \A c \in Calls :
          (calls[c].pc \in {"fetching", "settled", "sleeping"})
              ~> (calls[c].pc \in {"returned", "raised"})

\* A call that used all three fetches and both sleeps, cancelled during the
\* second sleep, has ended
C27_Witness ==
    \E c \in Calls :
        /\ calls[c].pc = "raised" /\ calls[c].abortPoint = <<"sleeping", 2>>
        /\ calls[c].fetchCalls = 3 /\ calls[c].sleeps = 2

\* C28: while the screen is mounted, with an API key configured, the loading
\* flag is true exactly when a search the screen awaits is pending with a
\* signal that has not fired, and that search is the latest one; so once the
\* latest search has settled, or a blank text was handled, the flag is false,
\* whatever superseded searches are still pending.
C28_LoadingFlag ==
    (mounted /\ apiKey) =>
        /\ isLoading <=>
              \E c \in searches :
                  /\ calls[c].pc \in {"fetching", "settled", "sleeping"}
                  /\ ~calls[c].signalAborted
        /\ \A c \in searches :
              (calls[c].pc \in {"fetching", "settled", "sleeping"} /\ ~calls[c].signalAborted)
                  => abortControllerRef = c

\* The latest search has settled and the flag is false while the search it
\* superseded is still pending
C28_Witness ==
    /\ mounted /\ apiKey /\ ~isLoading /\ started = 2
    /\ \E c, d \in Calls :
          /\ c # d /\ abortControllerRef = d
          /\ calls[d].pc \in {"returned", "raised"} /\ ~calls[d].signalAborted
          /\ c \in searches /\ calls[c].signalAborted
          /\ calls[c].pc \in {"fetching", "settled", "sleeping"}

---------------------------------------------------------------------------
\* The stores

\* C29: the watched list never holds two entries with one movie id; a
\* saveWatchedMovie for an id that is in the list replaces the fields of that
\* entry where it stands, the length of the list and every other entry staying
\* as they are, and a saveWatchedMovie for an id that is not in the list
\* appends one entry for it.
C29_SaveIsUpsert ==
    /\ [](\A i, j \in 1..Len(watchedMovies) :
            i # j => watchedMovies[i].id # watchedMovies[j].id)
    /\ [][(watchedMovies' # watchedMovies /\ loading' = loading) =>
            \E id \in {680, 550}, rating \in {3, 5} :
                LET saved == [id |-> id, userRating |-> rating] IN
                IF \E i \in 1..Len(watchedMovies) : watchedMovies[i].id = id
                THEN /\ Len(watchedMovies') = Len(watchedMovies)
                     /\ \A i \in 1..Len(watchedMovies) :
                           watchedMovies'[i] =
                               IF watchedMovies[i].id = id THEN saved ELSE watchedMovies[i]
                ELSE /\ Len(watchedMovies') = Len(watchedMovies) + 1
                     /\ watchedMovies'[Len(watchedMovies')] = saved
                     /\ \A i \in 1..Len(watchedMovies) : watchedMovies'[i] = watchedMovies[i]]_vars

\* The first of two entries was saved again with another rating (the write of
\* the new list to storage failed, so the stored list shows the entry before)
C29_Witness ==
    /\ ~loading /\ Len(watchedMovies) = 2
    /\ "@popcorn-boxd/watched-movies" \in DOMAIN storage
    /\ storage["@popcorn-boxd/watched-movies"] =
           <<[id |-> 680, userRating |-> 3], [id |-> 550, userRating |-> 3]>>
    /\ watchedMovies = <<[id |-> 680, userRating |-> 5], [id |-> 550, userRating |-> 3]>>

\* C30: the stored user list never holds two users whose e-mails are equal
\* after trimming and lower-casing, and a user that is in the stored list
\* stays in it, whatever sign-ups run and however their steps interleave.
C30_UniqueEmails ==
    /\ [](LET users == IF "@storage/users" \in DOMAIN storage
                        THEN storage["@storage/users"] ELSE <<>>
          IN  \A i, j \in 1..Len(users) :
                  i # j => toLowerCase(trim(users[i].email)) # toLowerCase(trim(users[j].email)))
    /\ [][("@storage/users" \in DOMAIN storage) =>
            \A i \in 1..Len(storage["@storage/users"]) :
                \E j \in 1..Len(storage'["@storage/users"]) :
                    storage'["@storage/users"][j] = storage["@storage/users"][i]]_vars

====
